---- MODULE Spec2Model ----
(***************************************************************************)
(* A model of drafts-mcp's callback correlation and retrying invocation:   *)
(*   CallbackServer (src/src/callback-server.ts): the table of pending     *)
(*     requests, their promises and timeout timers, the three x-callback   *)
(*     route handlers, start() and stop();                                 *)
(*   DraftsClient (src/unnamed/part_001): executeWithRetry, buildUrl,      *)
(*     openUrl and the operations built on them.                           *)
(*                                                                         *)
(* JavaScript runs each handler, timer callback and promise continuation   *)
(* to completion on one thread.  One action is therefore one macrotask     *)
(* together with the promise continuations (microtasks) it releases: an    *)
(* action that settles a promise also runs the code of the operation that  *)
(* awaits it, up to that operation's next suspension point.                *)
(***************************************************************************)
EXTENDS Integers, Sequences, FiniteSets, TLC

\* ------------------------------------------------------------- bounds
\* Identifiers a direct caller of registerRequest may use: 1..MaxCallerIds.
MaxCallerIds == 2
\* Total number of registerRequest calls in a run.
MaxRegs == 2
\* The client's maxRetries is configured between 0 and MaxRetriesBound.
MaxRetriesBound == 1
\* Longest string argument of an operation, in characters.
MaxArgLen == 2

\* ---------------------------------------------------------- constants
REQUEST_TIMEOUT == 30000
\* DraftsClient's defaults for maxRetries and retryDelay.
DefaultMaxRetries == 3
DefaultRetryDelay == 1000

VARIABLES
    server,            \* CallbackServer.server: "none" (undefined), "binding",
                       \*   "listening", "closing", "closed"
    port,              \* CallbackServer.port
    pendingRequests,   \* CallbackServer.pendingRequests: requestId -> index of
                       \*   the PendingRequest's promise and timer
    promises,          \* the promises made by registerRequest, in creation order
    timers,            \* the timeout timers made by registerRequest, same index
    lastHttp,          \* the last HTTP exchange of a callback route or of
                       \*   the health route
    lastUrls,          \* what getCallbackUrls returned to its last direct
                       \*   caller
    maxRetries,        \* DraftsClient.maxRetries
    nextUuid,          \* number of identifiers randomUUID has produced
    op                 \* the DraftsClient operation in progress (the model
                       \*   follows one operation at a time; the next may be
                       \*   called once it has returned or failed)

vars == <<server, port, pendingRequests, promises, timers, lastHttp, lastUrls,
          maxRetries, nextUuid, op>>

\* ------------------------------------------------------------- values
CallerIds == 1..MaxCallerIds
Ports == {1024, 65535}

\* A string is a sequence of parts; a query value that express parsed from a
\* repeated key is an array, modelled as a sequence of two or more parts.
Str(s) == <<s>>
Undefined == <<>>
EmptyData == [k \in {} |-> ""]

IsString(v) == Len(v) = 1
\* JavaScript truthiness of a query value or optional string.
Truthy(v) == v # Undefined /\ v # Str("")

\* The query strings the external application (or a test) sends:
\* ?text=hello&uuid=123, ?error=Something+went+wrong, and ?text=a&text=b&error=
\* (a repeated key and an empty error).
Queries ==
    { [text |-> Str("hello"), uuid |-> Str("123")],
      [error |-> Str("Something went wrong")],
      [text |-> <<"a", "b">>, error |-> Str("")] }

\* The queries of the callbacks Drafts sends while the client is under study:
\* no parameter, the parameters of a draft, an error message.
ClientQueries ==
    { EmptyData,
      [text |-> Str("hello"), uuid |-> Str("123")],
      [error |-> Str("Something went wrong")] }

QueryGet(q, k) == IF k \in DOMAIN q THEN q[k] ELSE Undefined

\* new Error(message): `id` and `ms` are the values interpolated in the message.
Error(message) == [message |-> message, id |-> 0, ms |-> 0]
NoError == Error(Undefined)
TimeoutError(requestId) ==
    [message |-> Str("Request timed out after ms"), id |-> requestId,
     ms |-> REQUEST_TIMEOUT]
ShutdownError == Error(Str("Server shutting down"))
ValidationError == Error(Str("Either uuid or title must be provided"))
NoContentError == Error(Str("No content returned from Drafts"))
\* The rejection of execFileAsync('open', [url]).
LaunchError == Error(Str("Command failed: open"))

\* CallbackResponse
NoResponse == [success |-> FALSE, data |-> EmptyData, error |-> Undefined]
SuccessResponse(data) == [success |-> TRUE, data |-> data, error |-> Undefined]
FailureResponse(error) == [success |-> FALSE, data |-> EmptyData, error |-> error]

\* ----------------------------------------------------------- promises
\* A promise settles on the first call of resolve or reject; later calls
\* change nothing.  `calls` counts the calls of resolve and reject.
NewPromise(requestId) ==
    [id |-> requestId, state |-> "pending", response |-> NoResponse,
     reason |-> NoError, calls |-> 0]

Resolve(p, response) ==
    IF p.state = "pending"
    THEN [p EXCEPT !.state = "resolved", !.response = response, !.calls = @ + 1]
    ELSE [p EXCEPT !.calls = @ + 1]

Reject(p, reason) ==
    IF p.state = "pending"
    THEN [p EXCEPT !.state = "rejected", !.reason = reason, !.calls = @ + 1]
    ELSE [p EXCEPT !.calls = @ + 1]

\* clearTimeout: a timer that fired or was cleared stays as it is.
ClearTimeout(t) == IF t = "live" THEN "cleared" ELSE t

\* Map.delete and Map.set on pendingRequests.
MapDelete(m, k) == [i \in DOMAIN m \ {k} |-> m[i]]
MapSet(m, k, v) == [i \in DOMAIN m \cup {k} |-> IF i = k THEN v ELSE m[i]]
EmptyMap == [i \in {} |-> 0]

Regs == DOMAIN promises

\* ------------------------------------------------------- DraftsClient
OpKinds == {"createDraft", "getDraft", "openDraft"}

\* `arg` is the string the caller passes (createDraft's text, getDraft's uuid,
\* openDraft's uuid and title when given), `url` what the last attempt handed
\* to `open`, `waits` the delays executeWithRetry has waited.
NoUrls == [success |-> Undefined, error |-> Undefined, cancel |-> Undefined]
NoUrl == [endpoint |-> "", params |-> EmptyData, callbacks |-> NoUrls]

IdleOp ==
    [pc |-> "idle", kind |-> "createDraft", uuid |-> FALSE, title |-> FALSE,
     retries |-> 0, reg |-> 0, ids |-> <<>>, evals |-> 0, registered |-> 0,
     launches |-> 0, errors |-> <<>>, thrown |-> NoError, result |-> EmptyData,
     arg |-> <<>>, url |-> NoUrl, waits |-> <<>>]

\* The registrations a run may make: MaxRegs, or the maxRetries + 1 of one
\* operation when the client is configured beyond MaxRetriesBound.
RegLimit == IF maxRetries > MaxRetriesBound THEN maxRetries + 1 ELSE MaxRegs

\* DraftsClient.retryDelay: the client is constructed with the default delay.
retryDelay == DefaultRetryDelay

\* Strings handed to the URL encoders are sequences of characters, drawn from
\* a letter, the space, the ampersand and the five marks ! ' ( ) *.
Special == {"!", "'", "(", ")", "*"}
Chars == {"a", " ", "&"} \cup Special
Args == UNION {[1..n -> Chars] : n \in 0..MaxArgLen}
\* The argument of the operations whose URL is not under study.
ClientArgs == {<<"a">>}

\* c.charCodeAt(0)
CharCode(c) ==
    CASE c = " " -> 32 [] c = "!" -> 33 [] c = "&" -> 38 [] c = "'" -> 39
      [] c = "(" -> 40 [] c = ")" -> 41 [] c = "*" -> 42 [] c = "a" -> 97

HexDigits ==
    <<"0", "1", "2", "3", "4", "5", "6", "7",
      "8", "9", "A", "B", "C", "D", "E", "F">>

\* '%' + c.charCodeAt(0).toString(16).toUpperCase(), for codes 16..255
PercentEncode(c) ==
    <<"%", HexDigits[(CharCode(c) \div 16) + 1], HexDigits[(CharCode(c) % 16) + 1]>>

\* ECMAScript encodeURIComponent: letters, digits and - _ . ! ~ * ' ( ) are
\* kept, every other character is percent-encoded.
RECURSIVE encodeURIComponent(_)
encodeURIComponent(str) ==
    IF str = <<>> THEN <<>>
    ELSE (IF Head(str) \in {"a"} \cup Special
          THEN <<Head(str)>> ELSE PercentEncode(Head(str)))
         \o encodeURIComponent(Tail(str))

\* .replace(/[!'()*]/g, c => '%' + ...)
RECURSIVE ReplaceSpecial(_)
ReplaceSpecial(str) ==
    IF str = <<>> THEN <<>>
    ELSE (IF Head(str) \in Special
          THEN PercentEncode(Head(str)) ELSE <<Head(str)>>)
         \o ReplaceSpecial(Tail(str))

\* DraftsClient.encodeURIComponentSafe; no method of the class calls it.
encodeURIComponentSafe(str) == ReplaceSpecial(encodeURIComponent(str))

\* URLSearchParams.toString(), the application/x-www-form-urlencoded
\* serializer, on one value: letters, digits and * - . _ are kept, the space
\* becomes +, every other character is percent-encoded.
RECURSIVE FormUrlEncode(_)
FormUrlEncode(str) ==
    IF str = <<>> THEN <<>>
    ELSE (IF Head(str) \in {"a", "*"} THEN <<Head(str)>>
          ELSE IF Head(str) = " " THEN <<"+">>
          ELSE PercentEncode(Head(str)))
         \o FormUrlEncode(Tail(str))

\* CallbackServer.getCallbackUrls(requestId), each URL as the parts of its
\* template string.
getCallbackUrls_CancelIsError(requestId) ==
    [success |-> <<"http://localhost:", port, "/x-success/", requestId>>,
     error   |-> <<"http://localhost:", port, "/x-error/", requestId>>,
     cancel  |-> <<"http://localhost:", port, "/x-error/", requestId>>]

getCallbackUrls(requestId) ==
    [success |-> <<"http://localhost:", port, "/x-success/", requestId>>,
     error   |-> <<"http://localhost:", port, "/x-error/", requestId>>,
     cancel  |-> <<"http://localhost:", port, "/x-cancel/", requestId>>]

\* The endpoint and the parameters an operation passes to buildUrl; the
\* parameters left undefined are skipped.
Endpoint(o) ==
    CASE o.kind = "createDraft" -> "create"
      [] o.kind = "getDraft" -> "get"
      [] o.kind = "openDraft" -> "open"

ParamKeys(o) ==
    CASE o.kind = "createDraft" -> {"text"}
      [] o.kind = "getDraft" -> {"uuid"}
      [] o.kind = "openDraft" ->
            (IF o.uuid THEN {"uuid"} ELSE {}) \cup
            (IF o.title THEN {"title"} ELSE {})

\* The URL buildUrl returns: the endpoint, each parameter as
\* urlParams.toString() serializes it, and the three callback URLs (which
\* hold none of the characters of Chars but the letter; the encoding of their
\* colons and slashes is left out).
UrlOf(o, requestId) ==
    [endpoint |-> Endpoint(o),
     params |-> [k \in ParamKeys(o) |-> FormUrlEncode(o.arg)],
     callbacks |-> getCallbackUrls(requestId)]

\* randomUUID(): an identifier no earlier call returned and no direct caller uses.
randomUUID == MaxCallerIds + nextUuid + 1

\* buildUrl as it would be if the identifier were minted once per operation
\* and kept for its retries.
buildUrl_Reuses(o) == IF o.ids # <<>> THEN o.ids[1] ELSE randomUUID

\* buildUrl: the request identifier of the attempt of operation o.
buildUrl(o) == randomUUID

\* The catch block as it would be with `retries >= 0` for `retries > 0`.
Catch_RetriesAtZero(o, error) ==
    IF o.retries >= 0
    THEN [o EXCEPT !.pc = "delay", !.errors = Append(@, error),
                   !.waits = Append(@, retryDelay)]
    ELSE [o EXCEPT !.pc = "failed", !.errors = Append(@, error),
                   !.thrown = error]

\* The catch block as it would be if it waited before rethrowing as well.
Catch_WaitsBeforeRaise(o, error) ==
    IF o.retries > 0
    THEN [o EXCEPT !.pc = "delay", !.errors = Append(@, error),
                   !.waits = Append(@, retryDelay)]
    ELSE [o EXCEPT !.pc = "failed", !.errors = Append(@, error),
                   !.waits = Append(@, retryDelay),
                   !.thrown = error]

Catch_ThrowsFirst(o, error) ==
    IF o.retries > 0
    THEN [o EXCEPT !.pc = "delay", !.errors = Append(@, error),
                   !.waits = Append(@, retryDelay)]
    ELSE [o EXCEPT !.pc = "failed", !.errors = Append(@, error),
                   !.thrown = Append(o.errors, error)[1]]

\* The catch block of executeWithRetry, entered with `retries` remaining:
\* wait retryDelay and retry, or rethrow.
Catch(o, error) ==
    IF o.retries > 0
    THEN [o EXCEPT !.pc = "delay", !.errors = Append(@, error),
                   !.waits = Append(@, retryDelay)]
    ELSE [o EXCEPT !.pc = "failed", !.errors = Append(@, error),
                   !.thrown = error]

\* openUrl after `await responsePromise`: what it throws, if it throws.
OpenUrlThrows(promise) ==
    promise.state = "rejected" \/ ~promise.response.success

OpenUrlError(promise) ==
    IF promise.state = "rejected"
    THEN promise.reason
    ELSE Error(IF Truthy(promise.response.error)
               THEN promise.response.error
               ELSE Str("Unknown error from Drafts"))

\* getDraft as it would be without its check of response.text.
Resume_AcceptsNoText(o, promise) ==
    IF OpenUrlThrows(promise)
    THEN Catch(o, OpenUrlError(promise))
    ELSE [o EXCEPT !.pc = "returned",
                   !.result = IF o.kind = "getDraft"
                              THEN promise.response.data ELSE EmptyData]

\* The operation as it would go on if a success did not end the retry loop.
Resume_RetriesAfterSuccess(o, promise) ==
    IF OpenUrlThrows(promise)
    THEN Catch(o, OpenUrlError(promise))
    ELSE IF o.retries > 0
         THEN [o EXCEPT !.pc = "delay", !.waits = Append(@, retryDelay)]
         ELSE [o EXCEPT !.pc = "returned"]

\* The operation's code from the settlement of its pending request's promise
\* to its next suspension point.
Resume(o, promise) ==
    IF OpenUrlThrows(promise)
    THEN Catch(o, OpenUrlError(promise))
    ELSE IF o.kind = "getDraft"
              /\ ("text" \notin DOMAIN promise.response.data
                  \/ promise.response.data["text"] = "")
         THEN Catch(o, NoContentError)
         ELSE [o EXCEPT !.pc = "returned",
                        !.result = IF o.kind = "getDraft"
                                   THEN promise.response.data ELSE EmptyData]

\* The operation after a step that leaves the promises as newPromises: it is
\* released when the promise it awaits has been settled.
ResumeAll(newPromises) ==
    IF /\ op.pc = "awaiting"
       /\ promises[op.reg].state = "pending"
       /\ newPromises[op.reg].state # "pending"
    THEN Resume(op, newPromises[op.reg])
    ELSE op

\* ----------------------------------------------------- CallbackServer
\* registerRequest(requestId): a new promise and timer, and the table entry
\* set under requestId (Map.set replaces an entry already there).
registerRequest(requestId) ==
    /\ promises' = Append(promises, NewPromise(requestId))
    /\ timers' = Append(timers, "live")
    /\ pendingRequests' = MapSet(pendingRequests, requestId, Len(promises) + 1)

\* A direct call of registerRequest (as the CallbackServer tests make).
\* registerRequest as it would be if it refused to register without a
\* running listener.
RegisterRequest_RequiresListener(requestId) ==
    /\ server = "listening"
    /\ Len(promises) < MaxRegs
    /\ registerRequest(requestId)
    /\ UNCHANGED <<server, port, lastHttp, lastUrls,
                   maxRetries, nextUuid, op>>

RegisterRequest(requestId) ==
    /\ Len(promises) < MaxRegs
    /\ registerRequest(requestId)
    /\ UNCHANGED <<server, port, lastHttp, lastUrls,
                   maxRetries, nextUuid, op>>

\* The timer callback as it would be without pendingRequests.delete.
Timeout_KeepsEntry(r) ==
    /\ timers[r] = "live"
    /\ LET newPromises == [promises EXCEPT
                             ![r] = Reject(@, TimeoutError(promises[r].id))]
       IN /\ timers' = [timers EXCEPT ![r] = "fired"]
          /\ promises' = newPromises
          /\ op' = ResumeAll(newPromises)
    /\ UNCHANGED <<server, port, pendingRequests, lastHttp, lastUrls, maxRetries,
                   nextUuid>>

Timeout_ClearsTable(r) ==
    /\ timers[r] = "live"
    /\ LET newPromises == [promises EXCEPT
                             ![r] = Reject(@, TimeoutError(promises[r].id))]
       IN /\ timers' = [timers EXCEPT ![r] = "fired"]
          /\ pendingRequests' = EmptyMap
          /\ promises' = newPromises
          /\ op' = ResumeAll(newPromises)
    /\ UNCHANGED <<server, port, lastHttp, lastUrls, maxRetries,
                   nextUuid>>

\* The timer callback of registration r.
Timeout(r) ==
    /\ timers[r] = "live"
    /\ LET requestId == promises[r].id
           newPromises == [promises EXCEPT
                             ![r] = Reject(@, TimeoutError(requestId))]
       IN /\ timers' = [timers EXCEPT ![r] = "fired"]
          /\ pendingRequests' = MapDelete(pendingRequests, requestId)
          /\ promises' = newPromises
          /\ op' = ResumeAll(newPromises)
    /\ UNCHANGED <<server, port, lastHttp, lastUrls,
                   maxRetries, nextUuid>>

\* The route handlers as they would be without pendingRequests.delete.
Handle_KeepsEntry(requestId, response) ==
    /\ server \in {"listening", "closing"}
    /\ IF requestId \in DOMAIN pendingRequests
       THEN LET r == pendingRequests[requestId]
                newPromises == [promises EXCEPT ![r] = Resolve(@, response)]
            IN /\ timers' = [timers EXCEPT ![r] = ClearTimeout(@)]
               /\ promises' = newPromises
               /\ op' = ResumeAll(newPromises)
               /\ lastHttp' = [status |-> 200, found |-> TRUE]
               /\ UNCHANGED pendingRequests
       ELSE /\ lastHttp' = [status |-> 200, found |-> FALSE]
            /\ UNCHANGED <<timers, pendingRequests, promises, op>>
    /\ UNCHANGED <<server, port, lastUrls, maxRetries, nextUuid>>

\* The route handlers as they would be if they answered 404 for an identifier
\* with no pending request.
Handle_NotFound404(requestId, response) ==
    /\ server \in {"listening", "closing"}
    /\ IF requestId \in DOMAIN pendingRequests
       THEN LET r == pendingRequests[requestId]
                newPromises == [promises EXCEPT ![r] = Resolve(@, response)]
            IN /\ timers' = [timers EXCEPT ![r] = ClearTimeout(@)]
               /\ pendingRequests' = MapDelete(pendingRequests, requestId)
               /\ promises' = newPromises
               /\ op' = ResumeAll(newPromises)
               /\ lastHttp' = [status |-> 200, found |-> TRUE]
       ELSE /\ lastHttp' = [status |-> 404, found |-> FALSE]
            /\ UNCHANGED <<timers, pendingRequests, promises, op>>
    /\ UNCHANGED <<server, port, lastUrls, maxRetries, nextUuid>>

\* The body shared by the three route handlers: settle the pending request
\* found under requestId with `response`, and answer 200 OK either way.
Handle(requestId, response) ==
    /\ server \in {"listening", "closing"}
    /\ IF requestId \in DOMAIN pendingRequests
       THEN LET r == pendingRequests[requestId]
                newPromises == [promises EXCEPT ![r] = Resolve(@, response)]
            IN /\ timers' = [timers EXCEPT ![r] = ClearTimeout(@)]
               /\ pendingRequests' = MapDelete(pendingRequests, requestId)
               /\ promises' = newPromises
               /\ op' = ResumeAll(newPromises)
               /\ lastHttp' = [status |-> 200, found |-> TRUE]
       ELSE /\ lastHttp' = [status |-> 200, found |-> FALSE]
            /\ UNCHANGED <<timers, pendingRequests, promises, op>>
    /\ UNCHANGED <<server, port, lastUrls, maxRetries, nextUuid>>

SuccessData_FirstOfRepeated(query) ==
    [k \in DOMAIN query |-> query[k][1]]

\* GET /x-success/:requestId
SuccessData(query) ==
    [k \in {k \in DOMAIN query : IsString(query[k])} |-> query[k][1]]

XSuccess(requestId, query) ==
    Handle(requestId, SuccessResponse(SuccessData(query)))

ErrorParam_NoDefault(query) == QueryGet(query, "error")

\* GET /x-error/:requestId
ErrorParam(query) ==
    IF Truthy(QueryGet(query, "error"))
    THEN QueryGet(query, "error") ELSE Str("Unknown error")

XError(requestId, query) ==
    Handle(requestId, FailureResponse(ErrorParam(query)))

XCancel_ReportsErrorParam(requestId, query) ==
    Handle(requestId, FailureResponse(ErrorParam(query)))

\* GET /x-cancel/:requestId
XCancel(requestId, query) ==
    Handle(requestId, FailureResponse(Str("User cancelled")))

\* GET /health
Health_AnswersWhenClosed ==
    /\ server # "none"
    /\ lastHttp' = [status |-> 200, body |-> [status |-> "ok", port |-> port]]
    /\ UNCHANGED <<server, port, pendingRequests, promises, timers, lastUrls,
                   maxRetries, nextUuid, op>>

Health ==
    /\ server \in {"listening", "closing"}
    /\ lastHttp' = [status |-> 200, body |-> [status |-> "ok", port |-> port]]
    /\ UNCHANGED <<server, port, pendingRequests, promises, timers, lastUrls,
                   maxRetries, nextUuid, op>>

\* getPort()
getPort == port

\* A direct call of getCallbackUrls(requestId), as the tests make.
GetCallbackUrls(requestId) ==
    /\ lastUrls' = getCallbackUrls(requestId)
    /\ UNCHANGED <<server, port, pendingRequests, promises, timers, lastHttp,
                   maxRetries, nextUuid, op>>

\* start(): getPort() has resolved and app.listen was called.
Start(p) ==
    /\ server = "none"
    /\ port' = p
    /\ server' = "binding"
    /\ UNCHANGED <<pendingRequests, promises, timers, lastHttp, lastUrls, maxRetries, nextUuid, op>>

\* The listen callback: start() resolves with the port.
Listening ==
    /\ server = "binding"
    /\ server' = "listening"
    /\ UNCHANGED <<port, pendingRequests, promises, timers,
                   lastHttp, lastUrls, maxRetries, nextUuid, op>>

\* stop() as it would be if it cleared the timers and the table without
\* rejecting.
Stop_DropsWithoutRejecting ==
    /\ LET entries == {pendingRequests[i] : i \in DOMAIN pendingRequests}
       IN timers' = [r \in DOMAIN timers |->
                       IF r \in entries THEN ClearTimeout(timers[r])
                       ELSE timers[r]]
    /\ pendingRequests' = EmptyMap
    /\ server' = IF server \in {"binding", "listening"} THEN "closing"
                 ELSE server
    /\ UNCHANGED <<port, promises, op, lastHttp, lastUrls, maxRetries, nextUuid>>

\* stop() as it would be without clearTimeout.
Stop_KeepsTimers ==
    /\ LET entries == {pendingRequests[i] : i \in DOMAIN pendingRequests}
           newPromises == [r \in DOMAIN promises |->
                             IF r \in entries
                             THEN Reject(promises[r], ShutdownError)
                             ELSE promises[r]]
       IN /\ promises' = newPromises
          /\ op' = ResumeAll(newPromises)
    /\ pendingRequests' = EmptyMap
    /\ server' = IF server \in {"binding", "listening"} THEN "closing"
                 ELSE server
    /\ UNCHANGED <<port, timers, lastHttp, lastUrls, maxRetries, nextUuid>>

\* stop(): reject and clear every entry of the table, then close the server.
\* Without a server stop() returns at once; with one it returns from the close
\* callback (Closed); closing a server that is not running makes it fail.
Stop ==
    /\ LET entries == {pendingRequests[i] : i \in DOMAIN pendingRequests}
           newPromises == [r \in DOMAIN promises |->
                             IF r \in entries
                             THEN Reject(promises[r], ShutdownError)
                             ELSE promises[r]]
       IN /\ timers' = [r \in DOMAIN timers |->
                          IF r \in entries THEN ClearTimeout(timers[r])
                          ELSE timers[r]]
          /\ promises' = newPromises
          /\ op' = ResumeAll(newPromises)
    /\ pendingRequests' = EmptyMap
    /\ server' = IF server \in {"binding", "listening"} THEN "closing"
                 ELSE server
    /\ UNCHANGED <<port, lastHttp, lastUrls, maxRetries, nextUuid>>

\* The close callback of server.close: stop() resolves.
Closed ==
    /\ server = "closing"
    /\ server' = "closed"
    /\ UNCHANGED <<port, pendingRequests, promises, timers, lastHttp, lastUrls, maxRetries, nextUuid, op>>

\* ------------------------------------------------ DraftsClient actions
\* fn() as it would be if openDraft validated its parameters after buildUrl.
Attempt_ValidatesAfterBuildUrl(o) ==
    IF o.kind = "openDraft" /\ ~o.uuid /\ ~o.title
    THEN /\ nextUuid' = nextUuid + 1
         /\ op' = Catch([o EXCEPT !.evals = @ + 1,
                                  !.ids = Append(@, buildUrl(o))],
                        ValidationError)
         /\ UNCHANGED <<pendingRequests, promises, timers>>
    ELSE /\ Len(promises) < RegLimit
         /\ LET requestId == buildUrl(o)
            IN /\ nextUuid' = nextUuid + 1
               /\ registerRequest(requestId)
               /\ op' = [o EXCEPT !.pc = "launching",
                                  !.evals = @ + 1,
                                  !.ids = Append(@, requestId),
                                  !.url = UrlOf(o, requestId),
                                  !.reg = Len(promises) + 1,
                                  !.registered = @ + 1,
                                  !.launches = @ + 1]

\* openUrl as it would be if it launched `open` without registerRequest.
Attempt_LaunchesUnregistered(o) ==
    IF o.kind = "openDraft" /\ ~o.uuid /\ ~o.title
    THEN /\ op' = Catch([o EXCEPT !.evals = @ + 1], ValidationError)
         /\ UNCHANGED <<pendingRequests, promises, timers, nextUuid>>
    ELSE /\ Len(promises) < RegLimit
         /\ LET requestId == buildUrl(o)
            IN /\ nextUuid' = nextUuid + 1
               /\ UNCHANGED <<pendingRequests, promises, timers>>
               /\ op' = [o EXCEPT !.pc = "launching",
                                  !.evals = @ + 1,
                                  !.ids = Append(@, requestId),
                                  !.url = UrlOf(o, requestId),
                                  !.launches = @ + 1]

\* One evaluation of fn(), the function an operation hands to
\* executeWithRetry, up to its first suspension point (the await of
\* execFileAsync): openDraft's validation, buildUrl, and openUrl's
\* registerRequest and launch of `open`.
Attempt(o) ==
    IF o.kind = "openDraft" /\ ~o.uuid /\ ~o.title
    THEN /\ op' = Catch([o EXCEPT !.evals = @ + 1], ValidationError)
         /\ UNCHANGED <<pendingRequests, promises, timers, nextUuid>>
    ELSE /\ Len(promises) < RegLimit
         /\ LET requestId == buildUrl(o)
            IN /\ nextUuid' = nextUuid + 1
               /\ registerRequest(requestId)
               /\ op' = [o EXCEPT !.pc = "launching",
                                  !.evals = @ + 1,
                                  !.ids = Append(@, requestId),
                                  !.url = UrlOf(o, requestId),
                                  !.reg = Len(promises) + 1,
                                  !.registered = @ + 1,
                                  !.launches = @ + 1]

\* A call of createDraft, getDraft or openDraft (appendToDraft, prependToDraft,
\* runAction and searchDrafts have createDraft's body): executeWithRetry with
\* retries = maxRetries, and the first evaluation of fn.  The program calls
\* the client only after start() has resolved.
Invoke(kind, uuid, title, arg) ==
    /\ op.pc \in {"idle", "returned", "failed"}
    /\ server \in {"listening", "closing", "closed"}
    /\ IF kind = "openDraft" THEN TRUE ELSE ~uuid /\ ~title
    /\ Attempt([IdleOp EXCEPT !.kind = kind, !.uuid = uuid, !.title = title,
                              !.arg = arg, !.retries = maxRetries])
    /\ UNCHANGED <<server, port, lastHttp, lastUrls, maxRetries>>

\* execFileAsync('open', [url]) resolves: openUrl goes on to await the
\* pending request's promise, which may have settled already.
LaunchOk ==
    /\ op.pc = "launching"
    /\ op' = IF promises[op.reg].state = "pending"
             THEN [op EXCEPT !.pc = "awaiting"]
             ELSE Resume(op, promises[op.reg])
    /\ UNCHANGED <<server, port, pendingRequests, promises, timers, lastHttp, lastUrls,
                   maxRetries, nextUuid>>

\* openUrl as it would be if it withdrew its pending request when the launch
\* fails.
LaunchFails_Unregisters ==
    /\ op.pc = "launching"
    /\ op' = Catch(op, LaunchError)
    /\ pendingRequests' = MapDelete(pendingRequests, promises[op.reg].id)
    /\ timers' = [timers EXCEPT ![op.reg] = ClearTimeout(@)]
    /\ UNCHANGED <<server, port, promises, lastHttp, lastUrls,
                   maxRetries, nextUuid>>

\* execFileAsync('open', [url]) rejects: openUrl throws without awaiting the
\* promise, and the pending request stays registered.
LaunchFails ==
    /\ op.pc = "launching"
    /\ op' = Catch(op, LaunchError)
    /\ UNCHANGED <<server, port, pendingRequests, promises, timers, lastHttp, lastUrls,
                   maxRetries, nextUuid>>

\* The retryDelay timer of executeWithRetry fires: the recursive call with
\* retries - 1 and its evaluation of fn.
Retry ==
    /\ op.pc = "delay"
    /\ Attempt([op EXCEPT !.retries = @ - 1])
    /\ UNCHANGED <<server, port, lastHttp, lastUrls, maxRetries>>

\* ------------------------------------------------------ specification
\* The identifiers a callback may name: every identifier registered so far,
\* and 0, an identifier that is never registered.
CallbackIds == {promises[r].id : r \in Regs} \cup {0}

Init ==
    /\ server = "none"
    /\ port = 0
    /\ pendingRequests = EmptyMap
    /\ promises = <<>>
    /\ timers = <<>>
    /\ lastHttp = [status |-> 0, found |-> FALSE]
    /\ lastUrls = NoUrls
    /\ maxRetries \in 0..MaxRetriesBound
    /\ nextUuid = 0
    /\ op = IdleOp

\* The CallbackServer's own steps.
LifecycleNext ==
    \/ \E p \in Ports : Start(p)
    \/ Listening
    \/ Stop
    \/ Closed
    \/ \E r \in Regs : Timeout(r)

\* The callbacks it receives, with queries drawn from Q.
CallbackNext(Q) ==
    \/ \E id \in CallbackIds, q \in Q : XSuccess(id, q)
    \/ \E id \in CallbackIds, q \in Q : XError(id, q)
    \/ \E id \in CallbackIds, q \in Q : XCancel(id, q)

ServerNext == LifecycleNext \/ CallbackNext(Queries)

\* Direct callers of registerRequest.
CallerNext ==
    \E id \in CallerIds : RegisterRequest(id)

\* The DraftsClient's operations.
ClientNext ==
    \/ \E kind \in OpKinds, uuid \in BOOLEAN, title \in BOOLEAN,
          arg \in ClientArgs :
          Invoke(kind, uuid, title, arg)
    \/ LaunchOk
    \/ LaunchFails
    \/ Retry

\* The health probe and the direct callers of getCallbackUrls.
ProbeNext ==
    \/ Health
    \/ \E id \in CallerIds : GetCallbackUrls(id)

Next == ServerNext \/ CallerNext \/ ClientNext \/ ProbeNext

Spec == Init /\ [][Next]_vars

\* The CallbackServer driven by direct callers, as its tests drive it; the
\* client is never called.
CorrelatorInit == Init /\ maxRetries = 0

CorrelatorNext == ServerNext \/ CallerNext

CorrelatorSpec == CorrelatorInit /\ [][CorrelatorNext]_vars

\* The CallbackServer probed while direct callers register requests: its
\* lifecycle, registrations and timeouts, the health route and
\* getCallbackUrls; no callback arrives.
EndpointNext == LifecycleNext \/ CallerNext \/ ProbeNext

EndpointSpec == CorrelatorInit /\ [][EndpointNext]_vars

\* The CallbackServer with callers that register only while no listener
\* exists: before start() is called or after stop() has returned.
RegisterOutside(requestId) ==
    /\ server \in {"none", "closed"}
    /\ RegisterRequest(requestId)

OutsideNext ==
    \/ LifecycleNext
    \/ CallbackNext(Queries)
    \/ \E id \in CallerIds : RegisterOutside(id)

OutsideSpec == CorrelatorInit /\ [][OutsideNext]_vars

\* getDraft and the success callbacks Drafts may answer it with: no
\* parameter, an empty text, a draft.
GetQueries ==
    { EmptyData,
      [text |-> Str("")],
      [text |-> Str("hello"), uuid |-> Str("123")] }

GetDraftNext ==
    \/ \E p \in Ports : Start(p)
    \/ Listening
    \/ \E r \in Regs : Timeout(r)
    \/ \E id \in CallbackIds, q \in GetQueries : XSuccess(id, q)
    \/ \E arg \in ClientArgs : Invoke("getDraft", FALSE, FALSE, arg)
    \/ LaunchOk
    \/ LaunchFails
    \/ Retry

GetDraftSpec == Init /\ [][GetDraftNext]_vars

\* One operation of the DraftsClient from its call to its completion, under
\* the scheduling Node guarantees: the child process of a launch exits (the
\* launch returns or fails), a timer that is not cleared fires, be it the
\* timeout of a registration or the retry delay.  Callbacks (with no
\* parameter or with a draft's) and stop() may or may not happen.
LiveQueries ==
    { EmptyData,
      [text |-> Str("hello"), uuid |-> Str("123")] }

InvokeOnce ==
    /\ op.pc = "idle"
    /\ \E kind \in OpKinds, uuid \in BOOLEAN, title \in BOOLEAN,
          arg \in ClientArgs :
          Invoke(kind, uuid, title, arg)

LiveNext ==
    \/ LifecycleNext
    \/ CallbackNext(LiveQueries)
    \/ InvokeOnce
    \/ LaunchOk
    \/ LaunchFails
    \/ Retry

LiveFairness ==
    /\ WF_vars(LaunchOk \/ LaunchFails)
    /\ WF_vars(Retry)
    /\ \A r \in 1..MaxRegs : WF_vars(r \in Regs /\ Timeout(r))

LiveSpec == Init /\ [][LiveNext]_vars /\ LiveFairness

\* The DraftsClient as index.ts constructs it, with the default maxRetries,
\* and the ways an attempt fails without the server being stopped: the launch
\* fails, the request times out, Drafts calls x-cancel.
DefaultInit ==
    /\ server = "none"
    /\ port = 0
    /\ pendingRequests = EmptyMap
    /\ promises = <<>>
    /\ timers = <<>>
    /\ lastHttp = [status |-> 0, found |-> FALSE]
    /\ lastUrls = NoUrls
    /\ maxRetries = DefaultMaxRetries
    /\ nextUuid = 0
    /\ op = IdleOp

DefaultNext ==
    \/ \E p \in Ports : Start(p)
    \/ Listening
    \/ \E r \in Regs : Timeout(r)
    \/ \E id \in CallbackIds : XCancel(id, EmptyData)
    \/ ClientNext

DefaultSpec == DefaultInit /\ [][DefaultNext]_vars

\* The DraftsClient called with every string argument of Args, its launches
\* and the timeouts of its requests.
EncodeNext ==
    \/ \E p \in Ports : Start(p)
    \/ Listening
    \/ \E r \in Regs : Timeout(r)
    \/ \E kind \in OpKinds, uuid \in BOOLEAN, title \in BOOLEAN, arg \in Args :
          Invoke(kind, uuid, title, arg)
    \/ LaunchOk
    \/ LaunchFails
    \/ Retry

EncodeSpec == Init /\ [][EncodeNext]_vars

\* The DraftsClient and its CallbackServer, with no other caller of
\* registerRequest.
ClientServerNext == LifecycleNext \/ CallbackNext(ClientQueries) \/ ClientNext

ClientSpec == Init /\ [][ClientServerNext]_vars

\* ------------------------------------------------------------- claims
Settled(r) == promises[r].state # "pending"

\* C1: the promise of every registration is settled at most once: resolve or
\* reject is called on it at most once, the step that settles it leaves no
\* table entry under its identifier and no live timer for it, and once it is
\* settled no later step touches it or changes its outcome.
C1_SettledExactlyOnce ==
    [][\A r \in Regs :
          /\ promises'[r].calls <= 1
          /\ Settled(r) => promises'[r] = promises[r]
          /\ (~Settled(r) /\ promises'[r].state # "pending") =>
                /\ promises'[r].calls = 1
                /\ promises[r].id \notin DOMAIN pendingRequests'
                /\ timers'[r] # "live"]_vars

\* A promise was settled by one call, and a later callback found no entry.
C1_Witness ==
    /\ \E r \in Regs : Settled(r) /\ promises[r].calls = 1
    /\ lastHttp = [status |-> 200, found |-> FALSE]

\* C2: a success, error or cancel callback for an identifier with no pending
\* request changes neither the table, nor any timer, nor any promise, nor the
\* client, and is answered 200.
C2_UnmatchedCallbackIsNoOp ==
    [][\A id \in CallbackIds, q \in Queries :
          (/\ id \notin DOMAIN pendingRequests
           /\ XSuccess(id, q) \/ XError(id, q) \/ XCancel(id, q))
          => /\ UNCHANGED <<pendingRequests, timers, promises, op>>
             /\ lastHttp'.status = 200]_vars

\* A callback found no entry for an identifier whose promise was settled before.
C2_Witness ==
    /\ lastHttp = [status |-> 200, found |-> FALSE]
    /\ \E r \in Regs : Settled(r) /\ promises[r].id \notin DOMAIN pendingRequests

\* C3: once the timer of a registration has fired, its promise is rejected (not
\* resolved) with the timeout error naming its identifier, and the table holds
\* no entry for that registration.
C3_TimeoutRejects ==
    \A r \in Regs :
        timers[r] = "fired" =>
            /\ promises[r].state = "rejected"
            /\ promises[r].reason = TimeoutError(promises[r].id)
            /\ promises[r].reason.id = promises[r].id
            /\ ~(/\ promises[r].id \in DOMAIN pendingRequests
                 /\ pendingRequests[promises[r].id] = r)

\* A timer fired and its promise is rejected with the timeout error.
C3_Witness ==
    \E r \in Regs :
        /\ timers[r] = "fired"
        /\ promises[r].state = "rejected"
        /\ promises[r].reason.ms = REQUEST_TIMEOUT

\* stop() returns: at once when there is no server, else from the close callback.
StopReturns == (Stop /\ server = "none") \/ Closed

\* C4: stop() rejects with the shutting-down failure every promise that is
\* unsettled when it is called, and when it returns the table is empty and no
\* timer is live.
C4_StopSettlesAll ==
    [][/\ Stop => \A r \in Regs :
                    ~Settled(r) => /\ promises'[r].state = "rejected"
                                   /\ promises'[r].reason = ShutdownError
       /\ StopReturns => /\ pendingRequests' = EmptyMap
                         /\ \A r \in DOMAIN timers' : timers'[r] # "live"]_vars

\* C5: registerRequest under an identifier that has an outstanding pending
\* request fails: no step makes a new registration (promise, timer, entry)
\* under an identifier that is in the table.
C5_ReRegistrationFails ==
    [][\A id \in DOMAIN pendingRequests :
          ~(/\ Len(promises') > Len(promises)
            /\ promises'[Len(promises')].id = id)]_vars

\* The failures the retry policy is specified to retry: an error or cancel
\* outcome, the Correlator's timeout, a launch failure.
Retryable(error) ==
    error \notin {ShutdownError, ValidationError, NoContentError, NoError}

InvalidOpen(o) == o.kind = "openDraft" /\ ~o.uuid /\ ~o.title

\* C6: an operation never makes more than maxRetries + 1 attempts (each one
\* registration and one launch), and one that has raised its error after
\* retryable failures only has made exactly maxRetries + 1.
C6_ExactlyMaxRetriesPlusOneAttempts ==
    /\ op.registered <= maxRetries + 1
    /\ op.launches <= maxRetries + 1
    /\ (/\ op.pc = "failed"
        /\ \A i \in DOMAIN op.errors : Retryable(op.errors[i]))
       => /\ op.registered = maxRetries + 1
          /\ op.launches = maxRetries + 1
          /\ Len(op.errors) = maxRetries + 1

\* With maxRetries = 1 an operation raised its error after 2 failed attempts.
C6_Witness ==
    /\ maxRetries = 1
    /\ op.pc = "failed"
    /\ op.launches = 2
    /\ \A i \in DOMAIN op.errors : Retryable(op.errors[i])

\* C7: when stop() is called while the operation awaits its pending request,
\* the operation raises the shutdown failure in that step: it does not wait the
\* retry delay and makes no further attempt.
C7_ShutdownNotRetried ==
    [][(op.pc = "awaiting" /\ Stop) =>
          /\ op'.pc = "failed"
          /\ op'.thrown = ShutdownError
          /\ op'.evals = op.evals]_vars

\* C8: openDraft without uuid and title raises its validation error after a
\* single evaluation, without waiting a retry delay.
C8_ValidationNotRetried ==
    InvalidOpen(op) /\ op.pc # "idle" =>
        /\ op.pc = "failed"
        /\ op.evals = 1
        /\ op.thrown = ValidationError

\* C9: while the operation is an openDraft without uuid and title, no step
\* mints an identifier, makes a registration, adds a table entry or launches
\* the external application.
C9_InvalidOpenHasNoEffect ==
    [][InvalidOpen(op') =>
          /\ nextUuid' = nextUuid
          /\ Len(promises') = Len(promises)
          /\ DOMAIN pendingRequests' \subseteq DOMAIN pendingRequests
          /\ op'.ids = <<>>
          /\ op'.registered = 0
          /\ op'.launches = 0]_vars

\* An openDraft without uuid and title has raised its error.
C9_Witness ==
    /\ InvalidOpen(op)
    /\ op.pc = "failed"
    /\ op.thrown = ValidationError

\* C10: no two registrations bear the same identifier, and the identifiers of
\* the operation's attempts are those of as many distinct registrations.
C10_FreshIdentifierPerAttempt ==
    /\ \A r1, r2 \in Regs :
          promises[r1].id = promises[r2].id => r1 = r2
    /\ \A i, j \in DOMAIN op.ids : op.ids[i] = op.ids[j] => i = j
    /\ \A i \in DOMAIN op.ids : \E r \in Regs : promises[r].id = op.ids[i]

\* A retry attempt has registered its identifier.
C10_Witness ==
    /\ Len(op.ids) >= 2
    /\ op.registered = Len(op.ids)
    /\ op.ids[1] # op.ids[2]
\* What the attempt that registered promises[op.reg] can have thrown, read
\* from the promise it awaited.
FinalFailures ==
    IF InvalidOpen(op) THEN {ValidationError}
    ELSE {LaunchError} \cup
         (IF promises[op.reg].state = "rejected"
          THEN {promises[op.reg].reason}
          ELSE IF ~promises[op.reg].response.success
          THEN {Error(IF promises[op.reg].response.error \in {Undefined, Str("")}
                      THEN Str("Unknown error from Drafts")
                      ELSE promises[op.reg].response.error)}
          ELSE {NoContentError})

\* C11: an operation that has failed raised the failure of its final attempt
\* as it was thrown, having spent every retry, and has no result; an
\* operation that has returned raised nothing; an operation still running
\* has neither outcome.
C11_FinalFailureRaisedUnchanged ==
    /\ op.pc = "failed" =>
          /\ op.retries = 0
          /\ op.thrown # NoError
          /\ op.thrown \in FinalFailures
          /\ op.thrown = op.errors[Len(op.errors)]
          /\ op.result = EmptyData
    /\ op.pc = "returned" => op.thrown = NoError
    /\ op.pc \notin {"failed", "returned"} =>
          op.thrown = NoError /\ op.result = EmptyData

\* An operation has failed after two attempts that failed differently.
C11_Witness ==
    /\ op.pc = "failed"
    /\ Len(op.errors) = 2
    /\ op.errors[1] # op.errors[2]
    /\ op.thrown = op.errors[2]
    /\ promises[op.reg].state # "pending"

\* The promise of the request pending under id is resolved with response in
\* this step, its entry removed and its timer cancelled.
ResolvedWith(id, response) ==
    LET r == pendingRequests[id]
    IN /\ promises'[r] = [promises[r] EXCEPT !.state = "resolved",
                                             !.response = response,
                                             !.calls = @ + 1]
       /\ id \notin DOMAIN pendingRequests'
       /\ timers'[r] = "cleared"

\* C12 as stated: a success callback for a pending identifier resolves its
\* promise with success and the mapping of all query parameters, each key to
\* its value, removes the entry and cancels the timer.
C12_SuccessDataIsAllParameters ==
    [][\A id \in CallbackIds, q \in Queries :
          (id \in DOMAIN pendingRequests /\ XSuccess(id, q)) =>
             LET data == promises'[pendingRequests[id]].response.data
             IN /\ DOMAIN data = DOMAIN q
                /\ \A k \in DOMAIN q : Str(data[k]) = q[k]
                /\ ResolvedWith(id, [success |-> TRUE, data |-> data,
                                     error |-> Undefined])]_vars

\* C12 amended: the data is the mapping of the query parameters whose parsed
\* value is a single string; a key the query repeats is left out.
C12_SuccessDataIsStringParameters ==
    [][\A id \in CallbackIds, q \in Queries :
          (id \in DOMAIN pendingRequests /\ XSuccess(id, q)) =>
             LET data == promises'[pendingRequests[id]].response.data
             IN /\ DOMAIN data = {k \in DOMAIN q : Len(q[k]) = 1}
                /\ \A k \in DOMAIN data : Str(data[k]) = q[k]
                /\ ResolvedWith(id, [success |-> TRUE, data |-> data,
                                     error |-> Undefined])]_vars

\* The callback /x-success/<id>?text=hello&uuid=123 has resolved a promise.
C12_Witness ==
    \E r \in Regs :
       /\ promises[r].state = "resolved"
       /\ promises[r].response =
             [success |-> TRUE, data |-> [text |-> "hello", uuid |-> "123"],
              error |-> Undefined]
       /\ promises[r].id \notin DOMAIN pendingRequests
       /\ timers[r] = "cleared"

\* C13 as stated: an error callback for a pending identifier resolves its
\* promise with success false and the value of the error parameter, or
\* "Unknown error" when the parameter is absent; entry removed, timer
\* cancelled.
C13_ErrorIsParameterUnlessAbsent ==
    [][\A id \in CallbackIds, q \in Queries :
          (id \in DOMAIN pendingRequests /\ XError(id, q)) =>
             ResolvedWith(id, [success |-> FALSE, data |-> EmptyData,
                               error |-> IF "error" \in DOMAIN q
                                         THEN q["error"]
                                         ELSE Str("Unknown error")])]_vars

\* C13 amended: the error is the value of the error parameter, or "Unknown
\* error" when the parameter is absent or empty; the promise is resolved,
\* never rejected.
C13_ErrorIsParameterUnlessAbsentOrEmpty ==
    [][\A id \in CallbackIds, q \in Queries :
          (id \in DOMAIN pendingRequests /\ XError(id, q)) =>
             /\ ResolvedWith(id, [success |-> FALSE, data |-> EmptyData,
                                  error |-> IF "error" \in DOMAIN q
                                               /\ q["error"] # Str("")
                                            THEN q["error"]
                                            ELSE Str("Unknown error")])
             /\ promises'[pendingRequests[id]].reason = NoError]_vars

\* One error callback carried a message and another carried none: both
\* promises are resolved, one with the message, one with the default.
C13_Witness ==
    \E r1, r2 \in Regs :
       /\ promises[r1].state = "resolved"
       /\ promises[r1].response =
             [success |-> FALSE, data |-> EmptyData,
              error |-> Str("Something went wrong")]
       /\ promises[r2].state = "resolved"
       /\ promises[r2].response =
             [success |-> FALSE, data |-> EmptyData,
              error |-> Str("Unknown error")]
       /\ pendingRequests = EmptyMap
       /\ timers[r1] = "cleared" /\ timers[r2] = "cleared"

\* C14: a cancel callback for a pending identifier resolves its promise,
\* never rejects it, with success false and the error "User cancelled",
\* whatever its query parameters; the entry is removed and the timer
\* cancelled.
C14_CancelResolvesUserCancelled ==
    [][\A id \in CallbackIds, q \in Queries :
          (id \in DOMAIN pendingRequests /\ XCancel(id, q)) =>
             /\ ResolvedWith(id, [success |-> FALSE, data |-> EmptyData,
                                  error |-> Str("User cancelled")])
             /\ promises'[pendingRequests[id]].reason = NoError]_vars

\* A cancel callback has resolved a promise.
C14_Witness ==
    \E r \in Regs :
       /\ promises[r].state = "resolved"
       /\ promises[r].response =
             [success |-> FALSE, data |-> EmptyData,
              error |-> Str("User cancelled")]
       /\ promises[r].id \notin DOMAIN pendingRequests
       /\ timers[r] = "cleared"

\* C15: getCallbackUrls(id) returns http://localhost:<port>/x-success/<id>,
\* .../x-error/<id> and .../x-cancel/<id>, a function of the bound port and
\* the identifier alone, whether or not the identifier is registered, and it
\* changes no pending request, promise or timer, nor the listener.
C15_CallbackUrlsArePure ==
    [][\A id \in CallerIds :
          GetCallbackUrls(id) =>
             /\ lastUrls' =
                   [success |-> <<"http://localhost:", port, "/x-success/", id>>,
                    error   |-> <<"http://localhost:", port, "/x-error/", id>>,
                    cancel  |-> <<"http://localhost:", port, "/x-cancel/", id>>]
             /\ UNCHANGED <<server, port, pendingRequests, promises,
                            timers>>]_vars

\* The URLs of an identifier never registered were asked for while the
\* listener was bound and another identifier's request was pending.
C15_Witness ==
    /\ server = "listening"
    /\ lastUrls.cancel = <<"http://localhost:", port, "/x-cancel/", 1>>
    /\ port \in Ports
    /\ \A r \in Regs : promises[r].id # 1
    /\ pendingRequests # EmptyMap

\* C18: while the listener is bound (start() has returned the port and
\* stop() has not been called) the port does not change, getPort() returns
\* it and the health route can be reached; every answer of the health route
\* is 200 {status: "ok", port: <the bound port>}; once stop() has completed
\* the health route answers no more.
C18_HealthReflectsLifecycle ==
    [][/\ server = "listening" =>
              /\ getPort \in Ports
              /\ port' = port
              /\ ENABLED Health
       /\ Health =>
              lastHttp' = [status |-> 200,
                           body |-> [status |-> "ok", port |-> getPort]]
       /\ server = "closed" => ~Health]_vars

\* The health route answered with the bound port, and stop() has completed
\* since.
C18_Witness ==
    /\ server = "closed"
    /\ port \in Ports
    /\ lastHttp = [status |-> 200, body |-> [status |-> "ok", port |-> port]]

\* An event for the identifier id: a callback naming it, or the timeout of a
\* request registered under it.
EventFor(id) ==
    \/ \E q \in Queries : XSuccess(id, q) \/ XError(id, q) \/ XCancel(id, q)
    \/ \E r \in Regs : promises[r].id = id /\ Timeout(r)

\* C16: an event for one identifier settles no promise, touches no timer and
\* removes no table entry of a request registered under another identifier.
C16_EventsAreIsolated ==
    [][\A id \in CallbackIds :
          EventFor(id) =>
             /\ \A r \in Regs :
                   promises[r].id # id =>
                      /\ promises'[r] = promises[r]
                      /\ timers'[r] = timers[r]
             /\ \A other \in DOMAIN pendingRequests \ {id} :
                   /\ other \in DOMAIN pendingRequests'
                   /\ pendingRequests'[other] = pendingRequests[other]
             /\ DOMAIN pendingRequests' \subseteq DOMAIN pendingRequests]_vars

\* Of two requests outstanding under distinct identifiers one has been
\* settled, by its callback or its timeout, and the other is still pending,
\* in the table, with its timer live.
C16_Witness ==
    \E a, b \in Regs :
       /\ promises[a].id # promises[b].id
       /\ Settled(a)
       /\ promises[a].reason # ShutdownError
       /\ ~Settled(b)
       /\ b > a
       /\ promises[b].id \in DOMAIN pendingRequests
       /\ pendingRequests[promises[b].id] = b
       /\ timers[b] = "live"

\* C17: stop() rejects before it releases the listener: the step of stop()
\* that starts closing a running server leaves every request registered so
\* far settled and out of the table, and the listener not yet closed.  (A
\* settled promise stays settled, so this is the state of those requests
\* when the listener has closed.)
C17_RejectedBeforeListenerReleased ==
    [][(Stop /\ server \in {"binding", "listening"}) =>
          /\ server' = "closing"
          /\ \A r \in Regs :
                /\ Settled(r)'
                /\ promises[r].id \notin DOMAIN pendingRequests']_vars

\* C19: under the default configuration an operation whose every attempt
\* fails has made 3 attempts when it fails, and each wait before a retry was
\* longer than the one before by a constant factor.
C19_ThreeAttemptsExponentialBackoff ==
    (op.pc = "failed" /\ ~InvalidOpen(op)) =>
       /\ op.launches = 3
       /\ \A i \in 2..Len(op.waits) : op.waits[i] > op.waits[i - 1]
       /\ \A i \in 3..Len(op.waits) :
             op.waits[i] * op.waits[i - 2] = op.waits[i - 1] * op.waits[i - 1]

\* C20: in the URL an attempt hands to `open`, no parameter value holds one
\* of the characters ! ' ( ) * literally.  (The callback URLs are built from
\* a port number and an identifier and hold none of them.)
C20_NoSpecialCharacterLiteral ==
    \A k \in DOMAIN op.url.params :
       \A i \in 1..Len(op.url.params[k]) : op.url.params[k][i] \notin Special

\* C21: whenever an attempt has launched the external application (it is
\* waiting for the launch to return or for its promise), the identifier it
\* minted has been registered, one registration per launch, and its pending
\* request is in the table unless its promise was settled (by a callback,
\* the timeout or stop()); a callback naming it while it is unsettled and the
\* listener runs therefore finds it.
C21_RegisteredBeforeLaunch ==
    op.pc \in {"launching", "awaiting"} =>
       /\ op.registered = op.launches
       /\ op.reg \in Regs
       /\ promises[op.reg].id = op.ids[Len(op.ids)]
       /\ op.url.callbacks.success[4] = promises[op.reg].id
       /\ ~Settled(op.reg) =>
             /\ promises[op.reg].id \in DOMAIN pendingRequests
             /\ pendingRequests[promises[op.reg].id] = op.reg
             /\ timers[op.reg] = "live"

\* A retry's attempt has launched and its request is pending in the table of
\* a running listener.
C21_Witness ==
    /\ op.pc = "launching"
    /\ op.evals = 2
    /\ server = "listening"
    /\ ~Settled(op.reg)
    /\ pendingRequests[promises[op.reg].id] = op.reg

SucceededWith(p) ==
    /\ p.state = "resolved"
    /\ p.response.success
    /\ op.kind = "getDraft" =>
          /\ "text" \in DOMAIN p.response.data
          /\ p.response.data["text"] # ""

\* A new operation is called.
NewInvocation ==
    \E kind \in OpKinds, uuid \in BOOLEAN, title \in BOOLEAN, arg \in ClientArgs :
       Invoke(kind, uuid, title, arg)

\* C23: the step in which the awaited promise is resolved with success, or in
\* which the launch returns to find it so resolved, makes the operation
\* return; a returned operation makes no further attempt whatever retries
\* it has left: until another operation is called no identifier is minted,
\* nothing is registered and nothing launched.
C23_SuccessEndsTheOperation ==
    [][/\ (op.pc = "awaiting" /\ SucceededWith(promises'[op.reg])) =>
             /\ op'.pc = "returned"
             /\ op'.launches = op.launches
             /\ Len(promises') = Len(promises)
       /\ (op.pc = "launching" /\ LaunchOk /\ SucceededWith(promises[op.reg])) =>
             op'.pc = "returned"
       /\ (op.pc = "returned" /\ ~NewInvocation) =>
             /\ op' = op
             /\ Len(promises') = Len(promises)
             /\ nextUuid' = nextUuid]_vars

\* An operation returned from its first attempt with a retry left, and the
\* server was stopped afterwards with nothing more registered.
C23_Witness ==
    /\ op.pc = "returned"
    /\ op.retries > 0
    /\ op.evals = 1
    /\ Len(promises) = 1
    /\ server = "closed"

\* C25: with every identifier registered once, a registration's timer is
\* live exactly when its entry is in the table and exactly when its promise
\* is unsettled, and the table holds nothing else.
C25_LiveTimersAreTheTable ==
    /\ \A r \in Regs :
          /\ timers[r] = "live" <=> ~Settled(r)
          /\ timers[r] = "live" <=>
                /\ promises[r].id \in DOMAIN pendingRequests
                /\ pendingRequests[promises[r].id] = r
    /\ \A id \in DOMAIN pendingRequests :
          /\ pendingRequests[id] \in Regs
          /\ promises[pendingRequests[id]].id = id
    /\ \A r1, r2 \in Regs : promises[r1].id = promises[r2].id => r1 = r2

\* Of two registrations one is pending in the table with its timer live,
\* the other was settled by stop() and is out of the table, its timer
\* cancelled.
C25_Witness ==
    /\ Len(promises) = 2
    /\ promises[1].state = "rejected"
    /\ promises[1].reason = ShutdownError
    /\ timers = <<"cleared", "live">>
    /\ DOMAIN pendingRequests = {promises[2].id}

\* C27: a failed launch is one failed attempt, retried while retries remain
\* and raised otherwise, and it leaves the table, the timers and the promises
\* as they were: the attempt's pending request stays registered.  When the
\* promise of a request is settled while the operation is between attempts
\* or has failed, the operation does not move: no attempt awaits it.
C27_FailedLaunchLeavesRequestPending ==
    [][/\ LaunchFails =>
             /\ op'.errors = Append(op.errors, LaunchError)
             /\ op'.pc = IF op.retries > 0 THEN "delay" ELSE "failed"
             /\ op.retries = 0 => op'.thrown = LaunchError
             /\ UNCHANGED <<pendingRequests, promises, timers>>
             /\ ~Settled(op.reg) =>
                   /\ pendingRequests'[promises[op.reg].id] = op.reg
                   /\ timers'[op.reg] = "live"
       /\ (/\ op.pc \in {"delay", "failed"}
           /\ \E r \in Regs : ~Settled(r) /\ Settled(r)') =>
             op' = op]_vars

\* The launch of the last attempt failed, the operation raised the launch
\* failure, and the request that attempt had registered timed out later.
C27_Witness ==
    /\ op.pc = "failed"
    /\ op.thrown = LaunchError
    /\ promises[op.reg].state = "rejected"
    /\ promises[op.reg].reason = TimeoutError(promises[op.reg].id)
    /\ timers[op.reg] = "fired"

\* C26: the timer callback of a registration removes no table entry but that
\* registration's own: an entry that belongs to another registration, a
\* later one under the same identifier included, stays, and no other promise
\* is rejected.
C26_TimeoutRemovesOnlyItsOwnEntry ==
    [][\A r \in Regs :
          Timeout(r) =>
             /\ \A id \in DOMAIN pendingRequests :
                   pendingRequests[id] # r =>
                      /\ id \in DOMAIN pendingRequests'
                      /\ pendingRequests'[id] = pendingRequests[id]
             /\ \A other \in Regs \ {r} : promises'[other] = promises[other]]_vars

\* C28 as stated: a request registered before start() or after stop() has
\* returned ends only by its timeout or by stop(): every settlement of its
\* promise is a rejection with one of those two failures.
C28_OutsideRequestEndsByTimeoutOrStop ==
    [][\A r \in Regs :
          (~Settled(r) /\ Settled(r)') =>
             /\ promises'[r].state = "rejected"
             /\ promises'[r].reason \in
                   {TimeoutError(promises[r].id), ShutdownError}]_vars

\* C28 amended: registerRequest can be called whatever the listener's state,
\* and it then adds a pending promise, a live timer and a table entry; while
\* the listener is not running (never started, still binding, or closed) a
\* promise is settled only by rejection, with its timeout or with the
\* shutting-down failure of stop().  (A request registered before start() is
\* open to callbacks once the listener runs.)
C28_RegistrationIgnoresListenerState ==
    [][/\ Len(promises) < MaxRegs => \A id \in CallerIds : ENABLED RegisterRequest(id)
       /\ \A id \in CallerIds :
             RegisterRequest(id) =>
                /\ promises' = Append(promises, NewPromise(id))
                /\ timers' = Append(timers, "live")
                /\ pendingRequests'[id] = Len(promises')
       /\ server \in {"none", "binding", "closed"} =>
             \A r \in Regs :
                (~Settled(r) /\ Settled(r)') =>
                   /\ promises'[r].state = "rejected"
                   /\ promises'[r].reason \in
                         {TimeoutError(promises[r].id), ShutdownError}]_vars

\* One request was registered before start() and timed out; another was
\* registered after stop() had closed the listener and is pending with its
\* timer live.
C28_Witness ==
    /\ server = "closed"
    /\ Len(promises) = 2
    /\ promises[1].reason = TimeoutError(promises[1].id)
    /\ ~Settled(2)
    /\ timers[2] = "live"
    /\ pendingRequests[promises[2].id] = 2

\* !response.text
NoText(data) == "text" \notin DOMAIN data \/ data["text"] = ""

\* Promise p is resolved with a success outcome that has no text.
SuccessWithoutText(p) ==
    p.state = "resolved" /\ p.response.success /\ NoText(p.response.data)

\* C29: when getDraft's awaited promise is resolved with a success whose data
\* has no text or an empty text (or the launch returns to find it so), the
\* attempt fails with the no-content error: with retries left the operation
\* waits and its retry mints a fresh identifier, registers and launches
\* again with one retry fewer; with none left it raises the no-content error
\* and has no result.
C29_NoContentIsAFailedAttempt ==
    [][/\ (/\ op.kind = "getDraft"
           /\ \/ op.pc = "awaiting" /\ SuccessWithoutText(promises'[op.reg])
              \/ op.pc = "launching" /\ LaunchOk
                    /\ SuccessWithoutText(promises[op.reg])) =>
             /\ op'.errors = Append(op.errors, NoContentError)
             /\ op'.pc = IF op.retries > 0 THEN "delay" ELSE "failed"
             /\ op.retries = 0 => op'.thrown = NoContentError
             /\ op'.result = EmptyData
       /\ (/\ op.pc = "delay"
           /\ op.errors[Len(op.errors)] = NoContentError
           /\ Retry) =>
             /\ op'.retries = op.retries - 1
             /\ op'.launches = op.launches + 1
             /\ Len(promises') = Len(promises) + 1
             /\ promises'[Len(promises')].id = op'.ids[Len(op'.ids)]
             /\ \A i \in 1..Len(op.ids) : op.ids[i] # op'.ids[Len(op'.ids)]]_vars

\* getDraft was answered with an empty text, retried, was answered with no
\* parameter at all, and raised the no-content error.
C29_Witness ==
    /\ op.kind = "getDraft"
    /\ op.pc = "failed"
    /\ op.errors = <<NoContentError, NoContentError>>
    /\ op.thrown = NoContentError
    /\ promises[1].response = SuccessResponse([text |-> ""])
    /\ promises[2].response = SuccessResponse(EmptyData)

\* C24: every promise registerRequest has made is eventually settled, every
\* operation that was called eventually returns or raises, and it never
\* makes more than maxRetries + 1 attempts.
C24_EveryOperationCompletes ==
    /\ \A r \in 1..MaxRegs : (r \in Regs) ~> (r \in Regs /\ Settled(r))
    /\ (op.pc # "idle") ~> (op.pc \in {"returned", "failed"})
    /\ [](op.evals <= maxRetries + 1)

\* An operation has raised after maxRetries + 1 attempts, the last of them
\* ended by stop(), and every promise is settled.
C24_Witness ==
    /\ op.pc = "failed"
    /\ maxRetries = MaxRetriesBound
    /\ op.evals = maxRetries + 1
    /\ op.thrown = ShutdownError
    /\ Len(promises) = op.evals
    /\ \A r \in Regs : Settled(r)

====
